---- MODULE Spec2Model ----
(***************************************************************************)
(* ReactFormVisitor (packages/ui-concerto/src/reactformvisitor.js): the    *)
(* depth-first walk over a Concerto schema that builds a form element tree *)
(* bound to a JSON document.  The JavaScript call stack is explicit        *)
(* (frames), so that the path stack, the skipLabel flag and the hidden     *)
(* field list can be observed while a handler is in progress.              *)
(***************************************************************************)
EXTENDS Integers, Sequences, FiniteSets, TLC

\* Longest array value held by a document of the model.
MaxLen == 2
\* Deepest JavaScript call stack a walk is allowed to build.
MaxDepth == 12

(***************************************************************************)
(* Document values (what lodash get returns).                              *)
(***************************************************************************)
Undefined == [t |-> "undefined", s |-> "", n |-> 0]
Str(s) == [t |-> "string", s |-> s, n |-> 0]
Num(n) == [t |-> "number", s |-> "", n |-> n]
Bool(b) == [t |-> "boolean", s |-> IF b THEN "true" ELSE "false", n |-> 0]
Arr(n) == [t |-> "array", s |-> "", n |-> n]
Obj == [t |-> "object", s |-> "", n |-> 0]

\* JavaScript truthiness of a document value (value && value.map(...)).
Truthy(v) ==
  /\ v.t # "undefined"
  /\ ~(v.t = "string" /\ v.s = "")
  /\ ~(v.t = "number" /\ v.n = 0)
  /\ ~(v.t = "boolean" /\ v.s = "false")

(***************************************************************************)
(* The schema: declarations and properties, keyed by fully qualified name. *)
(***************************************************************************)
NoNode ==
  [kind |-> "Other", name |-> "", fqn |-> "", abstract |-> FALSE, idField |-> "",
   props |-> <<>>, array |-> FALSE, primitive |-> FALSE, type |-> "",
   optional |-> FALSE, hide |-> FALSE, selectKey |-> "", formName |-> ""]

Cls(fqn, name, abstract, idField, props) ==
  [NoNode EXCEPT !.kind = "ClassDeclaration", !.fqn = fqn, !.name = name,
                 !.abstract = abstract, !.idField = idField, !.props = props]

Enum(fqn, name, literals) ==
  [NoNode EXCEPT !.kind = "EnumDeclaration", !.fqn = fqn, !.name = name,
                 !.props = literals]

Fld(owner, name, type, primitive, array) ==
  [NoNode EXCEPT !.kind = "Field", !.fqn = owner \o "." \o name, !.name = name,
                 !.type = type, !.primitive = primitive, !.array = array]

Rel(owner, name, type, array) ==
  [NoNode EXCEPT !.kind = "RelationshipDeclaration", !.fqn = owner \o "." \o name,
                 !.name = name, !.type = type, !.array = array]

MonetaryAmountName == "org.accordproject.money.MonetaryAmount"
DigitalMonetaryAmountName == "org.accordproject.money.DigitalMonetaryAmount"
DurationName == "org.accordproject.time.Duration"
PeriodName == "org.accordproject.time.Period"
AccordPartyName == "org.accordproject.cicero.contract.AccordParty"
CurrencyCodeName == "org.accordproject.money.CurrencyCode"
TemporalUnitName == "org.accordproject.time.TemporalUnit"
BaseName == "org.test.Base"
ItemName == "org.test.Item"
OrderName == "org.test.Order"

Declarations ==
  { Enum(CurrencyCodeName, "CurrencyCode", <<"USD", "EUR", "GBP">>),
    Enum(TemporalUnitName, "TemporalUnit", <<"seconds", "days">>),
    Cls(MonetaryAmountName, "MonetaryAmount", FALSE, "",
        << MonetaryAmountName \o ".doubleValue", MonetaryAmountName \o ".currencyCode" >>),
    Cls(DigitalMonetaryAmountName, "DigitalMonetaryAmount", FALSE, "",
        << DigitalMonetaryAmountName \o ".doubleValue",
           DigitalMonetaryAmountName \o ".digitalCurrencyCode" >>),
    Cls(DurationName, "Duration", FALSE, "",
        << DurationName \o ".amount", DurationName \o ".unit" >>),
    \* A model that defines Period over a Duration: a composite inside a composite.
    Cls(PeriodName, "Period", FALSE, "",
        << PeriodName \o ".amount", PeriodName \o ".count" >>),
    Cls(AccordPartyName, "AccordParty", FALSE, "partyId",
        << AccordPartyName \o ".partyId" >>),
    Cls(BaseName, "Base", TRUE, "sku", << BaseName \o ".sku" >>),
    Cls(ItemName, "Item", FALSE, "sku",
        << ItemName \o ".sku", ItemName \o ".code", ItemName \o ".unit" >>),
    Cls(OrderName, "Order", FALSE, "orderId",
        << OrderName \o ".orderId", OrderName \o ".secret", OrderName \o ".tags",
           OrderName \o ".flag", OrderName \o ".when", OrderName \o ".price",
           OrderName \o ".party", OrderName \o ".buyer", OrderName \o ".watchers",
           OrderName \o ".hiddenRel", OrderName \o ".items", OrderName \o ".term", OrderName \o ".note" >>) }

Properties ==
  { Fld(MonetaryAmountName, "doubleValue", "Double", TRUE, FALSE),
    Fld(MonetaryAmountName, "currencyCode", CurrencyCodeName, FALSE, FALSE),
    Fld(DigitalMonetaryAmountName, "doubleValue", "Double", TRUE, FALSE),
    Fld(DigitalMonetaryAmountName, "digitalCurrencyCode", "String", TRUE, FALSE),
    Fld(DurationName, "amount", "Long", TRUE, FALSE),
    Fld(DurationName, "unit", TemporalUnitName, FALSE, FALSE),
    Fld(PeriodName, "amount", DurationName, FALSE, FALSE),
    Fld(PeriodName, "count", "Long", TRUE, FALSE),
    Fld(AccordPartyName, "partyId", "String", TRUE, FALSE),
    Fld(BaseName, "sku", "String", TRUE, FALSE),
    Fld(ItemName, "sku", "String", TRUE, FALSE),
    [Fld(ItemName, "code", "Double", TRUE, FALSE) EXCEPT !.selectKey = "codes"],
    [Fld(ItemName, "unit", TemporalUnitName, FALSE, FALSE)
       EXCEPT !.optional = TRUE, !.selectKey = "units"],
    Fld(OrderName, "orderId", "String", TRUE, FALSE),
    [Fld(OrderName, "secret", "String", TRUE, FALSE) EXCEPT !.hide = TRUE],
    [Fld(OrderName, "tags", "String", TRUE, TRUE) EXCEPT !.selectKey = "tagsel"],
    [Fld(OrderName, "flag", "Boolean", TRUE, FALSE) EXCEPT !.selectKey = "flags"],
    [Fld(OrderName, "when", "DateTime", TRUE, FALSE) EXCEPT !.selectKey = "whens"],
    [Fld(OrderName, "price", MonetaryAmountName, FALSE, FALSE)
       EXCEPT !.formName = "Total price"],
    Fld(OrderName, "party", AccordPartyName, FALSE, FALSE),
    Rel(OrderName, "buyer", AccordPartyName, FALSE),
    Rel(OrderName, "watchers", AccordPartyName, TRUE),
    [Rel(OrderName, "hiddenRel", AccordPartyName, TRUE) EXCEPT !.hide = TRUE],
    Fld(OrderName, "items", BaseName, FALSE, TRUE),
    Fld(OrderName, "term", PeriodName, FALSE, FALSE),
    [Fld(OrderName, "note", "String", TRUE, FALSE) EXCEPT !.selectKey = "notes"] }

\* A value handed to visit that is no declaration and no property.
OtherName == "some.model.File"
OtherNode == [NoNode EXCEPT !.fqn = OtherName, !.name = "File"]

Nodes == Declarations \cup Properties \cup {OtherNode}
NodeNames == { d.fqn : d \in Nodes }
Node(q) == CHOOSE d \in Nodes : d.fqn = q

(***************************************************************************)
(* Helpers of ./utilities and of the libraries the visitor calls.          *)
(***************************************************************************)
\* A path segment: a property name (string) or an array index (number).
Seg(name) == [isIndex |-> FALSE, name |-> name, index |-> 0]
Idx(i) == [isIndex |-> TRUE, name |-> "", index |-> i]

RECURSIVE pathToString(_)
pathToString(path) ==
  IF path = <<>> THEN ""
  ELSE LET init == pathToString(SubSeq(path, 1, Len(path) - 1))
           last == path[Len(path)]
       IN  IF last.isIndex THEN init \o "[" \o ToString(last.index) \o "]"
           ELSE IF init = "" THEN last.name
           ELSE init \o "." \o last.name

\* lodash get(parameters.json, key): the document is held flattened, one entry
\* per path; a path the document lacks reads as undefined.
get(doc, key) == IF key \in DOMAIN doc THEN doc[key] ELSE Undefined

hideProperty(property, hidden) ==
  \E i \in 1..Len(hidden) : hidden[i] = property.fqn

isHidden(property) == property.hide

toFieldType(type) ==
  CASE type = "DateTime" -> "datetime-local"
    [] type \in {"Double", "Long", "Integer"} -> "number"
    [] type = "Boolean" -> "checkbox"
    [] OTHER -> "text"

\* The key of the field's custom-selector decorator, "" when it has none.
getCustomSelectDecoratorKey(field) == field.selectKey

\* The declared type itself, or for an abstract type its concrete subclass.
findConcreteSubclass(type) ==
  IF type.kind = "ClassDeclaration" /\ type.abstract /\ type.fqn = BaseName
  THEN Node(ItemName) ELSE type

getDefaultValue(field) ==
  CASE ~field.primitive -> Obj
    [] field.type = "Boolean" -> Bool(FALSE)
    [] toFieldType(field.type) = "number" -> Num(0)
    [] OTHER -> Str("")

\* newResource(namespace, type, 'resource1').toURI()
ResourceURI(relationship) == Str("resource:" \o relationship.type \o "#resource1")

\* thing instanceof cls, with concerto-core's EnumDeclaration extending
\* ClassDeclaration.
InstanceOf(node, cls) ==
  \/ node.kind = cls
  \/ node.kind = "EnumDeclaration" /\ cls = "ClassDeclaration"

(***************************************************************************)
(* Documents: for a root node, the flattened document of a given array     *)
(* length and enumeration choice, its paths laid out by the schema.        *)
(***************************************************************************)
Range(f) == { f[i] : i \in DOMAIN f }

PrimValue(type) ==
  CASE type = "Boolean" -> Bool(TRUE)
    [] toFieldType(type) = "number" -> Num(7)
    [] type = "DateTime" -> Str("2020-01-01")
    [] OTHER -> Str("text")

Literal(enum, e) == enum.props[((e - 1) % Len(enum.props)) + 1]

RECURSIVE TypeEntries(_, _, _, _), PropEntries(_, _, _, _)
TypeEntries(typeName, key, n, e) ==
  LET t == findConcreteSubclass(Node(typeName))
  IN  IF t.kind = "EnumDeclaration" THEN { <<key, Str(Literal(t, e))>> }
      ELSE (IF key = "" THEN {} ELSE { <<key, Obj>> })
           \cup UNION { PropEntries(p, IF key = "" THEN Node(p).name
                                       ELSE key \o "." \o Node(p).name, n, e)
                        : p \in Range(t.props) }
PropEntries(p, key, n, e) ==
  LET f == Node(p)
      elem(k) == IF f.kind = "RelationshipDeclaration" THEN { <<k, ResourceURI(f)>> }
                 ELSE IF f.primitive THEN { <<k, PrimValue(f.type)>> }
                 ELSE TypeEntries(f.type, k, n, e)
  IN  IF f.array
      THEN { <<key, Arr(n)>> }
           \cup UNION { elem(key \o "[" \o ToString(i) \o "]") : i \in 0..(n - 1) }
      ELSE elem(key)

ToMap(S) == [k \in { p[1] : p \in S } |-> (CHOOSE p \in S : p[1] = k)[2]]

\* n = -1 is the empty document: every path reads as undefined.
DocFor(root, n, e) ==
  LET r == Node(root)
  IN  IF n < 0 \/ r.kind = "Other" THEN ToMap({})
      ELSE IF r.kind \in {"Field", "RelationshipDeclaration"}
           THEN ToMap(PropEntries(root, r.name, n, e))
      ELSE ToMap(TypeEntries(root, "", n, e))

\* The customSelectors registries a caller supplies (or does not).
Options(key) == << [value |-> key \o "-1", text |-> "One"],
                   [value |-> key \o "-2", text |-> "Two"] >>
Registry(keys) == [supplied |-> TRUE, map |-> [k \in keys |-> Options(k)]]
NoRegistry == [supplied |-> FALSE, map |-> [k \in {} |-> Options(k)]]
Registries == { NoRegistry, Registry({"notes"}), Registry({"notes", "codes", "tagsel"}) }

(***************************************************************************)
(* Elements of the returned tree.                                          *)
(***************************************************************************)
El ==
  [w |-> "", key |-> "", id |-> "", field |-> "", value |-> Undefined,
   skipLabel |-> FALSE, type |-> "", required |-> FALSE, index |-> -1,
   name |-> "", options |-> <<>>, addDefault |-> Undefined, toggle |-> FALSE,
   children |-> <<>>]

Null == [El EXCEPT !.w = "null"]

\* What a class declaration's default branch returns: the array of its
\* properties' renderings.
ElementArray(items) == [El EXCEPT !.w = "Array", !.children = items]

\* Options listed last literal first.
EnumOptionsReversed(enumDeclaration) ==
  [i \in 1..Len(enumDeclaration.props) |->
     LET lit == enumDeclaration.props[Len(enumDeclaration.props) + 1 - i]
     IN  [key |-> "option-" \o lit, value |-> lit, text |-> lit]]

EnumOptions(enumDeclaration) ==
  [i \in 1..Len(enumDeclaration.props) |->
     [key |-> "option-" \o enumDeclaration.props[i],
      value |-> enumDeclaration.props[i],
      text |-> enumDeclaration.props[i]]]

EnumDropdown(enumDeclaration, key, value) ==
  [El EXCEPT !.w = "ConcertoDropdown", !.id = key, !.key = "enum-" \o key,
             !.value = value, !.field = enumDeclaration.fqn,
             !.options = EnumOptions(enumDeclaration)]

FieldCommonProps(field, skip, key, value) ==
  [El EXCEPT !.skipLabel = (skip \/ field.array), !.id = key, !.field = field.fqn,
             !.value = value, !.type = toFieldType(field.type),
             !.required = ~field.optional]

RelationshipCommonProps(relationship, skip, key, value) ==
  [El EXCEPT !.skipLabel = (skip \/ relationship.array), !.id = key,
             !.field = relationship.fqn, !.value = value, !.type = "text",
             !.required = ~relationship.optional]

Checkbox(props, key, value, style) ==
  [props EXCEPT !.w = "ConcertoCheckbox", !.id = key, !.key = key, !.value = value,
                !.toggle = (style = "toggle")]

DateTimePicker(props, key, value) ==
  [props EXCEPT !.w = "ConcertoDateTime", !.id = key, !.key = key, !.value = value]

SelectOptions(options) ==
  [i \in 1..Len(options) |->
     [key |-> "option-" \o options[i].value, value |-> options[i].value,
      text |-> options[i].text]]

SelectDropdown(key, value, options) ==
  [El EXCEPT !.w = "ConcertoDropdown", !.id = key, !.key = "select-" \o key,
             !.value = value, !.options = SelectOptions(options)]

Input(props, key, value) ==
  [props EXCEPT !.w = "ConcertoInput", !.id = key, !.key = key, !.value = value]

Label(skip, name) ==
  [El EXCEPT !.w = "ConcertoLabel", !.skipLabel = skip, !.name = name, !.key = name]

\* The display name: the field's name, or the FormEditor decorator's second
\* argument when the field carries one.
DisplayName(field) == IF field.formName # "" THEN field.formName ELSE field.name

FormField(field, props, inner) ==
  [El EXCEPT !.w = "Form.Field", !.required = ~field.optional,
             !.key = DisplayName(field),
             !.children = << Label(props.skipLabel, DisplayName(field)), inner >>]

FieldArrayElement(props, field, index, inner) ==
  [props EXCEPT !.w = "ConcertoArrayElement", !.index = index,
                !.key = field.name \o "_wrapper[" \o ToString(index) \o "]",
                !.children = << inner >>]

FieldArray(props, field, wrappers) ==
  [props EXCEPT !.w = "ConcertoArray", !.key = field.name \o "_wrapper",
                !.addDefault = getDefaultValue(field), !.children = wrappers]

RelationshipPicker(props, key, id, value) ==
  [props EXCEPT !.w = "ConcertoRelationship", !.key = key, !.id = id, !.value = value]

RelationshipArrayElement(props, key, index, value) ==
  [props EXCEPT !.w = "ConcertoArrayElement", !.index = index,
                !.key = "relationship-" \o key \o "-" \o ToString(index),
                !.children = << RelationshipPicker(props, "", key, value) >>]

RelationshipArray(props, relationship, key, wrappers) ==
  [props EXCEPT !.w = "ConcertoArray", !.key = key,
                !.addDefault = ResourceURI(relationship), !.children = wrappers]

CompositeWrapper(widget, declaration, children) ==
  [El EXCEPT !.w = widget, !.key = declaration.name, !.children = children]

(***************************************************************************)
(* State.                                                                  *)
(***************************************************************************)
VARIABLES
  thing,            \* the node handed to the top-level visit
  json,             \* parameters.json, flattened
  hideIdentifiers,  \* parameters.hideIdentifiers
  checkboxStyle,    \* parameters.checkboxStyle
  customSelectors,  \* parameters.customSelectors
  stack,            \* parameters.stack, the path stack
  skipLabel,        \* parameters.skipLabel (undefined reads as false)
  hiddenFields,     \* parameters.hiddenFields (undefined reads as empty)
  fileWriter,       \* whether parameters.fileWriter is set
  frames,           \* the JavaScript call stack, innermost last
  ret,              \* the value the last return handed to its caller
  status,           \* "running", "done" (visit returned) or "error" (it threw)
  err,              \* the message of the error thrown
  visits,           \* calls of visit so far
  handled           \* handlers entered by visit so far

vars == << thing, json, hideIdentifiers, checkboxStyle, customSelectors, stack,
           skipLabel, hiddenFields, fileWriter, frames, ret, status, err, visits,
           handled >>

\* The caller's context never changes during a walk.
context == << thing, json, hideIdentifiers, checkboxStyle, customSelectors >>

\* A call frame.  entryStack and entrySkip record parameters.stack and
\* parameters.skipLabel as they were when the call was made.
Frame(fn, node, props, stk, skip) ==
  [fn |-> fn, node |-> node, pc |-> "start", idx |-> 0, n |-> 0, acc |-> <<>>,
   key |-> "", value |-> Undefined, props |-> props,
   entryStack |-> stk, entrySkip |-> skip]

Top == frames[Len(frames)]
Callers == SubSeq(frames, 1, Len(frames) - 1)
Running(fn) == status = "running" /\ frames # <<>> /\ Top.fn = fn

\* A pop that removes nothing.
PopKeeps(s) == s

\* stack.pop()
Pop(s) == SubSeq(s, 1, Len(s) - 1)

\* The top frame moves on without calling or returning.
Goto(frame) ==
  /\ frames' = Append(Callers, frame)
  /\ UNCHANGED << ret, status, err, visits, handled >>

\* p.accept(this, parameters): the top frame calls visit on a node, with the
\* path stack and skipLabel as the call finds them.
CallVisit(frame, node, stk, skip) ==
  /\ Len(frames) < MaxDepth
  /\ frames' = Append(Append(Callers, frame), Frame("visit", node, El, stk, skip))
  /\ visits' = visits + 1
  /\ UNCHANGED << ret, status, err, handled >>

\* this.visitSingletonField(field, parameters, props)
CallSingleton(frame, node, props, stk) ==
  /\ Len(frames) < MaxDepth
  /\ frames' = Append(Append(Callers, frame),
                      Frame("visitSingletonField", node, props, stk, skipLabel))
  /\ UNCHANGED << ret, status, err, visits, handled >>

\* The top frame returns v to its caller; the outermost return ends the walk.
Return(v) ==
  /\ frames' = Callers
  /\ ret' = v
  /\ status' = IF Len(frames) = 1 THEN "done" ELSE status
  /\ UNCHANGED << err, visits, handled >>

\* An unwinding that restores the path stack of the outermost call, as a
\* try/finally around each push would.
StackUnwound(s, fs) == fs[1].entryStack

\* The path stack as an uncaught throw leaves it: no handler of the file has a
\* try/finally, so no pop runs while the call stack unwinds.
StackAfterThrow(s, fs) == s

\* throw new Error(msg): every frame is abandoned up to the caller of visit.
Throw(msg) ==
  /\ frames' = <<>>
  /\ status' = "error"
  /\ err' = msg
  /\ stack' = StackAfterThrow(stack, frames)
  /\ UNCHANGED << ret, visits, handled >>

Init ==
  /\ thing \in NodeNames
  /\ \E n \in -1..MaxLen, e \in 1..2 : json = DocFor(thing, n, e)
  /\ hideIdentifiers \in BOOLEAN
  /\ checkboxStyle \in {"toggle"}
  /\ customSelectors \in Registries
  /\ stack = <<>>
  /\ skipLabel \in BOOLEAN
  /\ hiddenFields = <<>>
  /\ fileWriter = FALSE
  /\ frames = << Frame("visit", thing, El, <<>>, skipLabel) >>
  /\ ret = Null
  /\ status = "running"
  /\ err = ""
  /\ visits = 1
  /\ handled = 0

(***************************************************************************)
(* visit                                                                   *)
(***************************************************************************)
\* A chain that tests ClassDeclaration before EnumDeclaration.
DispatchClassFirst(node) ==
  IF InstanceOf(node, "ClassDeclaration") THEN "visitClassDeclaration"
  ELSE IF InstanceOf(node, "EnumDeclaration") THEN "visitEnumDeclaration"
  ELSE IF InstanceOf(node, "Field") THEN "visitField"
  ELSE IF InstanceOf(node, "RelationshipDeclaration") THEN "visitRelationship"
  ELSE "throw"

\* The instanceof chain: the handler the node goes to, "throw" when none.
Dispatch(node) ==
  IF InstanceOf(node, "EnumDeclaration") THEN "visitEnumDeclaration"
  ELSE IF InstanceOf(node, "ClassDeclaration") THEN "visitClassDeclaration"
  ELSE IF InstanceOf(node, "Field") THEN "visitField"
  ELSE IF InstanceOf(node, "RelationshipDeclaration") THEN "visitRelationship"
  ELSE "throw"

Visit ==
  /\ Running("visit")
  /\ fileWriter' = TRUE
  /\ LET h == Dispatch(Node(Top.node))
     IN  IF h = "throw"
         THEN Throw("Unrecognised type")
         ELSE /\ frames' = Append(Callers, [Top EXCEPT !.fn = h])
              /\ handled' = handled + 1
              /\ UNCHANGED << ret, status, err, visits, stack >>
  /\ UNCHANGED << context, skipLabel, hiddenFields >>

(***************************************************************************)
(* visitClassDeclaration                                                   *)
(***************************************************************************)
\* parameters.hiddenFields after the hideIdentifiers block.
RegisterIdentifier(classDeclaration, hide, hidden) ==
  IF hide /\ classDeclaration.idField # ""
  THEN Append(hidden, Node(classDeclaration.fqn \o "." \o classDeclaration.idField).fqn)
  ELSE hidden

\* The composite handler a class name selects, "" for none.
CompositeHandler(fqn) ==
  IF fqn \in {MonetaryAmountName, DigitalMonetaryAmountName} THEN "visitMonetaryAmount"
  ELSE IF fqn \in {DurationName, PeriodName} THEN "visitDuration"
  ELSE IF fqn \in {AccordPartyName} THEN "visitAccordParty"
  ELSE ""

VisitClassDeclaration ==
  /\ Running("visitClassDeclaration")
  /\ LET c == Node(Top.node)
     IN  \/ /\ Top.pc = "start"
            /\ hiddenFields' = RegisterIdentifier(c, hideIdentifiers, hiddenFields)
            /\ IF c.abstract THEN Return(Null)
               ELSE IF CompositeHandler(c.fqn) # ""
                    THEN Goto([Top EXCEPT !.fn = CompositeHandler(c.fqn)])
               ELSE Goto([Top EXCEPT !.pc = "map", !.idx = 1])
         \/ /\ Top.pc = "map"
            /\ hiddenFields' = hiddenFields
            /\ IF Top.idx <= Len(c.props)
               THEN CallVisit([Top EXCEPT !.pc = "mapped"], c.props[Top.idx],
                              stack, skipLabel)
               ELSE Return(ElementArray(Top.acc))
         \/ /\ Top.pc = "mapped"
            /\ hiddenFields' = hiddenFields
            /\ Goto([Top EXCEPT !.pc = "map", !.idx = @ + 1, !.acc = Append(@, ret)])
  /\ UNCHANGED << context, stack, skipLabel, fileWriter >>

(***************************************************************************)
(* visitMonetaryAmount, visitDuration, visitAccordParty                    *)
(***************************************************************************)
\* parameters.skipLabel as a composite handler leaves it.
SkipLabelAfterComposite(before) == FALSE

\* A composite handler: set skipLabel, visit the first `count` properties in
\* order, build the wrapper, reset skipLabel, return.
Composite(widget, count) ==
  /\ LET d == Node(Top.node)
     IN  \/ /\ Top.pc = "start"
            /\ skipLabel' = TRUE
            /\ CallVisit([Top EXCEPT !.pc = "child", !.idx = 1], d.props[1],
                         stack, TRUE)
         \/ /\ Top.pc = "child"
            /\ IF Top.idx < count
               THEN /\ skipLabel' = skipLabel
                    /\ CallVisit([Top EXCEPT !.idx = @ + 1, !.acc = Append(@, ret)],
                                 d.props[Top.idx + 1], stack, skipLabel)
               ELSE /\ skipLabel' = SkipLabelAfterComposite(Top.entrySkip)
                    /\ Return(CompositeWrapper(widget, d, Append(Top.acc, ret)))
  /\ UNCHANGED << context, stack, hiddenFields, fileWriter >>

VisitMonetaryAmount ==
  /\ Running("visitMonetaryAmount")
  /\ Composite("MonetaryAmount", 2)

VisitDuration ==
  /\ Running("visitDuration")
  /\ Composite("Duration", 2)

VisitAccordParty ==
  /\ Running("visitAccordParty")
  /\ Composite("div", 1)

(***************************************************************************)
(* visitEnumDeclaration                                                    *)
(***************************************************************************)
VisitEnumDeclaration ==
  /\ Running("visitEnumDeclaration")
  /\ LET key == pathToString(stack)
         value == get(json, key)
     IN  Return(EnumDropdown(Node(Top.node), key, value))
  /\ UNCHANGED << context, stack, skipLabel, hiddenFields, fileWriter >>

(***************************************************************************)
(* visitField                                                              *)
(***************************************************************************)
\* A guard that consults the accumulated list only.
PropertyHiddenByListOnly(property, hidden) == hideProperty(property, hidden)

\* The guard that skips a property: hidden by the accumulated list or by policy.
PropertyHidden(property, hidden) == hideProperty(property, hidden) \/ isHidden(property)

\* A map that stops one entry short.
MapCountShort(value) == IF Truthy(value) /\ value.n > 0 THEN value.n - 1 ELSE 0

\* How many entries value && value.map(...) renders.
MapCount(value) == IF Truthy(value) THEN value.n ELSE 0

VisitField ==
  /\ Running("visitField")
  /\ LET field == Node(Top.node)
     IN  \/ /\ Top.pc = "start"
            /\ IF PropertyHidden(field, hiddenFields)
               THEN /\ stack' = stack
                    /\ Return(Null)
               ELSE LET pushed == Append(stack, Seg(field.name))
                        key == pathToString(pushed)
                        value == get(json, key)
                        commonProps == FieldCommonProps(field, skipLabel, key, value)
                        here == [Top EXCEPT !.key = key, !.value = value,
                                            !.props = commonProps]
                    IN  /\ stack' = pushed
                        /\ IF field.array
                           THEN Goto([here EXCEPT !.pc = "map", !.idx = 0,
                                                  !.n = MapCount(value)])
                           ELSE CallSingleton([here EXCEPT !.pc = "single"],
                                              Top.node, commonProps, pushed)
         \/ /\ Top.pc = "map"
            /\ IF Top.idx < Top.n
               THEN /\ stack' = Append(stack, Idx(Top.idx))
                    /\ CallSingleton([Top EXCEPT !.pc = "element"], Top.node,
                                     Top.props, Append(stack, Idx(Top.idx)))
               ELSE /\ stack' = Pop(stack)
                    /\ Return(FieldArray(Top.props, field, Top.acc))
         \/ /\ Top.pc = "element"
            /\ stack' = Pop(stack)
            /\ Goto([Top EXCEPT !.pc = "map", !.idx = @ + 1,
                                !.acc = Append(@, FieldArrayElement(Top.props, field,
                                                                    Top.idx, ret))])
         \/ /\ Top.pc = "single"
            /\ stack' = Pop(stack)
            /\ Return(ret)
  /\ UNCHANGED << context, skipLabel, hiddenFields, fileWriter >>

(***************************************************************************)
(* visitSingletonField                                                     *)
(***************************************************************************)
\* customSelectors[customSelectorKey] is missing ({} when none was supplied).
SelectorMissing(selectorKey, selectors) == selectorKey \notin DOMAIN selectors.map

\* A resolution that leads every composite field to the Period class, whose
\* first property is itself composite: a self-referential schema.
ResolvedTypeCyclic(field) == Node(PeriodName)

\* modelManager.getType(field.getFullyQualifiedTypeName()), then
\* findConcreteSubclass.
ResolvedType(field) == findConcreteSubclass(Node(field.type))

\* What throw hands back in place of an element.
Thrown == [El EXCEPT !.w = "throw"]

\* A primitive branch that falls through to the plain input when the selector
\* is missing.
PrimitiveWidgetUnchecked(field, props, key, value, selectors, style) ==
  LET selectorKey == getCustomSelectDecoratorKey(field)
  IN  IF field.type = "Boolean" THEN Checkbox(props, key, value, style)
      ELSE IF toFieldType(field.type) = "datetime-local"
           THEN DateTimePicker(props, key, value)
      ELSE IF selectorKey # "" /\ selectorKey \in DOMAIN selectors.map
           THEN SelectDropdown(key, value, selectors.map[selectorKey])
      ELSE Input(props, key, value)

\* The primitive branch: the widget of a primitive field, or Thrown when its
\* custom selector is missing.
PrimitiveWidget(field, props, key, value, selectors, style) ==
  LET selectorKey == getCustomSelectDecoratorKey(field)
  IN  IF field.type = "Boolean" THEN Checkbox(props, key, value, style)
      ELSE IF toFieldType(field.type) = "datetime-local"
           THEN DateTimePicker(props, key, value)
      ELSE IF selectorKey # ""
           THEN IF SelectorMissing(selectorKey, selectors) THEN Thrown
                ELSE SelectDropdown(key, value, selectors.map[selectorKey])
      ELSE Input(props, key, value)

VisitSingletonField ==
  /\ Running("visitSingletonField")
  /\ LET field == Node(Top.node)
         key == pathToString(stack)
         value == get(json, key)
         widget == PrimitiveWidget(field, Top.props, key, value, customSelectors,
                                   checkboxStyle)
     IN  \/ /\ Top.pc = "start"
            /\ field.primitive
            /\ IF widget = Thrown
               THEN Throw("Custom selector key not found")
               ELSE stack' = stack /\ Return(widget)
         \/ /\ Top.pc = "start"
            /\ ~field.primitive
            /\ stack' = stack
            /\ CallVisit([Top EXCEPT !.pc = "type"], ResolvedType(field).fqn,
                         stack, skipLabel)
         \/ /\ Top.pc = "type"
            /\ stack' = stack
            /\ Return(FormField(field, Top.props, ret))
  /\ UNCHANGED << context, skipLabel, hiddenFields, fileWriter >>

(***************************************************************************)
(* visitRelationship                                                       *)
(***************************************************************************)
VisitRelationship ==
  /\ Running("visitRelationship")
  /\ LET relationship == Node(Top.node)
     IN  \/ /\ Top.pc = "start"
            /\ IF PropertyHidden(relationship, hiddenFields)
               THEN /\ stack' = stack
                    /\ Return(Null)
               ELSE LET pushed == Append(stack, Seg(relationship.name))
                        key == pathToString(pushed)
                        value == get(json, key)
                        commonProps == RelationshipCommonProps(relationship, skipLabel,
                                                               key, value)
                    IN  IF relationship.array
                        THEN /\ stack' = pushed
                             /\ Goto([Top EXCEPT !.pc = "map", !.idx = 0,
                                                 !.n = MapCount(value), !.key = key,
                                                 !.value = value, !.props = commonProps])
                        ELSE /\ stack' = Pop(pushed)
                             /\ Return(RelationshipPicker(commonProps, key, key, value))
         \/ /\ Top.pc = "map"
            /\ IF Top.idx < Top.n
               THEN /\ stack' = Append(stack, Idx(Top.idx))
                    /\ Goto([Top EXCEPT !.pc = "element"])
               ELSE /\ stack' = Pop(stack)
                    /\ Return(RelationshipArray(Top.props, relationship, Top.key, Top.acc))
         \/ /\ Top.pc = "element"
            /\ LET key == pathToString(stack)
                   value == get(json, key)
               IN  /\ stack' = Pop(stack)
                   /\ Goto([Top EXCEPT !.pc = "map", !.idx = @ + 1,
                                       !.acc = Append(@, RelationshipArrayElement(
                                                           Top.props, key, Top.idx, value))])
  /\ UNCHANGED << context, skipLabel, hiddenFields, fileWriter >>

(***************************************************************************)
(* The walk.                                                               *)
(***************************************************************************)
Next ==
  \/ Visit
  \/ VisitClassDeclaration
  \/ VisitMonetaryAmount
  \/ VisitDuration
  \/ VisitAccordParty
  \/ VisitEnumDeclaration
  \/ VisitField
  \/ VisitSingletonField
  \/ VisitRelationship

Spec == Init /\ [][Next]_vars

\* JavaScript runs a synchronous call to completion: a step that can be taken
\* is taken.
FairSpec == Spec /\ WF_vars(Next)

(***************************************************************************)
(* Properties.                                                             *)
(***************************************************************************)
RECURSIVE Elements(_)
\* Every element of a tree, the root included.
Elements(el) == {el} \cup UNION { Elements(el.children[i]) : i \in 1..Len(el.children) }

\* This step is a normal return of the top frame.
Returns ==
  /\ status = "running" /\ frames # <<>>
  /\ frames' = Callers /\ status' # "error"

\* This step throws.
Throws == status = "running" /\ status' = "error"

PropertyHandlers == {"visitField", "visitRelationship"}
CompositeHandlers == {"visitMonetaryAmount", "visitDuration", "visitAccordParty"}
SelectorError == "Custom selector key not found"
TypeError == "Unrecognised type"

C2_HiddenRendersNull ==
  /\ [][ ( /\ status = "running" /\ frames # <<>>
           /\ Top.fn \in PropertyHandlers /\ Top.pc = "start"
           /\ (hideProperty(Node(Top.node), hiddenFields) \/ isHidden(Node(Top.node))) )
         => (Returns /\ ret' = Null /\ stack' = stack) ]_vars
  /\ [](\A e \in Elements(ret) :
          (e.field # "" /\ Node(e.field).kind \in {"Field", "RelationshipDeclaration"})
          => (~isHidden(Node(e.field)) /\ ~hideProperty(Node(e.field), hiddenFields)))

\* C2 witness: the Order class rendered with hideIdentifiers set; the slot of its
\* identifier and the slot of its policy-hidden field are both null.
C2_Witness ==
  /\ status = "done" /\ thing = OrderName /\ hideIdentifiers
  /\ Len(ret.children) = 13
  /\ ret.children[1] = Null /\ ret.children[2] = Null
  /\ ret.children[10] = Null

\* C9 as stated: when visitMonetaryAmount, visitDuration or visitAccordParty
\* returns, skipLabel has the value it had immediately before the call.
C9_SkipLabelRestored ==
  [][ (Returns /\ Top.fn \in CompositeHandlers) => skipLabel' = Top.entrySkip ]_vars

\* The path-stack depth the enclosing visitField calls account for: one for
\* each field name pushed, one more for each array index pushed.
RECURSIVE PushedBy(_)
PushedBy(fs) ==
  IF fs = <<>> THEN 0
  ELSE LET f == fs[Len(fs)]
       IN  PushedBy(SubSeq(fs, 1, Len(fs) - 1))
           + (IF f.fn = "visitField" /\ f.pc \in {"single", "map", "element"}
              THEN 1 ELSE 0)
           + (IF f.fn = "visitField" /\ f.pc = "element" THEN 1 ELSE 0)

\* C10: when visitSingletonField throws the missing-custom-selector error no
\* pop runs: the path stack the caller of visit is left with is the stack at
\* the throw, holding every name and index the enclosing visitField calls
\* pushed, so it is strictly deeper than before the call.
C10_ThrowLeavesStack ==
  /\ [][ (Throws /\ err' = SelectorError)
         => /\ Top.fn = "visitSingletonField"
            /\ stack' = stack
            /\ stack' = Top.entryStack
            /\ Len(stack') = Len(frames[1].entryStack) + PushedBy(frames)
            /\ Len(stack') > Len(frames[1].entryStack) ]_vars
  /\ []((status = "error" /\ err = SelectorError) => Len(stack) > 0)

\* C10 witness: the error raised inside an array entry's class, under three
\* pushes (field name, index, field name).
C10_Witness ==
  /\ status = "error" /\ err = SelectorError
  /\ Len(stack) = 3 /\ stack[2].isIndex /\ stack[3].name = "code"

\* The field's custom-selector key has no entry in the registry.
MissingFor(field) ==
  /\ getCustomSelectDecoratorKey(field) # ""
  /\ getCustomSelectDecoratorKey(field) \notin DOMAIN customSelectors.map

\* C3 as stated: no visit of a non-hidden field whose custom-selector key is
\* missing from the registry returns an element, whatever the field's type and
\* whether it is array-valued or scalar.
C3_MissingSelectorAlwaysThrows ==
  [][ ~( /\ Returns /\ Top.fn = "visitField" /\ Top.pc # "start"
         /\ MissingFor(Node(Top.node)) ) ]_vars

\* The fields whose rendering consults the registry: primitive, and neither
\* Boolean nor DateTime.
ConsultsRegistry(field) == field.primitive /\ field.type \notin {"Boolean", "DateTime"}

\* C3 amended: for a non-hidden primitive field that is neither Boolean nor
\* DateTime and whose custom-selector key is missing from the registry,
\* rendering its value throws the missing-custom-selector error and returns no
\* element; the visit of such a field, scalar or array-valued with at least
\* one entry, never returns.
C3_MissingSelectorThrows ==
  /\ [][ ( /\ Running("visitSingletonField") /\ Top.pc = "start"
           /\ ConsultsRegistry(Node(Top.node)) /\ MissingFor(Node(Top.node)) )
         => (Throws /\ err' = SelectorError /\ ret' = ret) ]_vars
  /\ [][ ~( /\ Returns /\ Top.fn = "visitField" /\ Top.pc # "start"
            /\ ConsultsRegistry(Node(Top.node)) /\ MissingFor(Node(Top.node))
            /\ (Node(Top.node).array => Top.n >= 1) ) ]_vars

\* C3 witness: no customSelectors supplied, and the array-valued tags field
\* has thrown while rendering its first entry.
C3_Witness ==
  /\ status = "error" /\ err = SelectorError
  /\ ~customSelectors.supplied
  /\ thing = OrderName \o ".tags" /\ Len(stack) = 2 /\ stack[2].isIndex
  /\ ret = Null

\* The handler each node variant goes to.
HandlerOf(kind) ==
  CASE kind = "EnumDeclaration" -> "visitEnumDeclaration"
    [] kind = "ClassDeclaration" -> "visitClassDeclaration"
    [] kind = "Field" -> "visitField"
    [] kind = "RelationshipDeclaration" -> "visitRelationship"
    [] OTHER -> "throw"

\* C4: every call of visit enters exactly the one handler of the node's
\* variant, and a node of no known variant makes visit throw the
\* unrecognised-type error with no handler having run.
C4_DispatchOnVariant ==
  /\ [][ Running("visit")
         => LET k == Node(Top.node).kind
            IN  IF HandlerOf(k) = "throw"
                THEN Throws /\ err' = TypeError /\ handled' = handled /\ frames' = <<>>
                ELSE /\ status' = "running" /\ Len(frames') = Len(frames)
                     /\ frames'[Len(frames')].fn = HandlerOf(k)
                     /\ frames'[Len(frames')].node = Top.node
                     /\ handled' = handled + 1 ]_vars
  /\ [](handled + (IF Running("visit") THEN 1 ELSE 0)
                + (IF err = TypeError THEN 1 ELSE 0) = visits)
  /\ []((status = "error" /\ err = TypeError) => handled = 0)

\* C4 witness: visit was handed a node of no known variant and threw before
\* any handler ran.
C4_Witness ==
  /\ status = "error" /\ err = TypeError
  /\ thing = OtherName /\ handled = 0 /\ visits = 1

\* C5: every rendered array container has one element wrapper per entry of
\* the document value at its path, in index order; the widget inside wrapper
\* i is bound to <fieldPath>[i], and is built while the path stack holds the
\* field name then i; the container's add default is the field's computed
\* default value (field) or the sample resource's URI (relationship).
C5_ArrayWrappers ==
  /\ \A c \in Elements(ret) :
       c.w = "ConcertoArray" =>
         LET f == Node(c.field)
             v == get(json, c.id)
             N == IF v.t = "array" THEN v.n ELSE 0
         IN  /\ Len(c.children) = N
             /\ \A i \in 1..N :
                  LET wrapper == c.children[i]
                      path == c.id \o "[" \o ToString(i - 1) \o "]"
                  IN  /\ wrapper.w = "ConcertoArrayElement"
                      /\ wrapper.index = i - 1
                      /\ Len(wrapper.children) = 1
                      /\ wrapper.children[1].w # "Form.Field"
                         => /\ wrapper.children[1].id = path
                            /\ wrapper.children[1].value = get(json, path)
             /\ c.addDefault = IF f.kind = "Field" THEN getDefaultValue(f)
                               ELSE ResourceURI(f)
  /\ \A k \in 2..Len(frames) :
       (frames[k].fn = "visitSingletonField" /\ frames[k - 1].pc = "element")
       => /\ frames[k].entryStack
               = Append(Append(frames[k - 1].entryStack, Seg(Node(frames[k].node).name)),
                        Idx(frames[k - 1].idx))
          /\ pathToString(frames[k].entryStack)
               = frames[k - 1].key \o "[" \o ToString(frames[k - 1].idx) \o "]"
          /\ (k = Len(frames) => stack = frames[k].entryStack)

\* C5 witness: the Order class rendered over a document whose arrays hold two
\* entries: tags, watchers and items each have two wrappers.
C5_Witness ==
  /\ status = "done" /\ thing = OrderName
  /\ Len(ret.children[3].children) = 2
  /\ ret.children[3].children[2].children[1].id = "tags[1]"
  /\ Len(ret.children[9].children) = 2
  /\ ret.children[9].children[1].children[1].id = "watchers[0]"
  /\ ret.children[9].addDefault = Str("resource:" \o AccordPartyName \o "#resource1")
  /\ Len(ret.children[11].children) = 2

\* Whether a rendered sub-widget has its label suppressed.
LabelSuppressed(child) ==
  IF child.w = "Form.Field" THEN child.children[1].skipLabel
  ELSE IF child.w = "ConcertoDropdown" THEN TRUE
  ELSE child.skipLabel

CompositeCount(fn) == IF fn = "visitAccordParty" THEN 1 ELSE 2

\* C6 as stated: an abstract class declaration renders as null; an amount,
\* duration or party class renders as one wrapper with 2, 2 and 1 children,
\* the renderings of its first properties in order, each rendered sub-widget
\* with its label suppressed.
C6_CompositeWidgets ==
  [][ Returns =>
        /\ (Top.fn = "visitClassDeclaration" /\ Node(Top.node).abstract) => ret' = Null
        /\ Top.fn \in CompositeHandlers =>
             /\ ret'.w \in {"MonetaryAmount", "Duration", "div"}
             /\ Len(ret'.children) = CompositeCount(Top.fn)
             /\ \A i \in 1..Len(ret'.children) :
                  ret'.children[i] # Null => LabelSuppressed(ret'.children[i]) ]_vars

\* C7: the walk ends, in a return or in an error.
C7_Terminates == <>(status # "running")

\* C7 witness: the longest walk of the model, the Order class over arrays of
\* MaxLen entries, has returned.
C7_Witness ==
  /\ status = "done" /\ thing = OrderName
  /\ get(json, "items") = Arr(MaxLen)
  /\ visits > 30

\* C8: visitEnumDeclaration returns a selector whose value is the document
\* value at the path of the path stack and whose options are the declared
\* literals, one each, in declaration order, value and text the literal name.
C8_EnumSelector ==
  /\ [][ (Returns /\ Top.fn = "visitEnumDeclaration")
         => LET literals == Node(Top.node).props
            IN  /\ ret'.w = "ConcertoDropdown"
                /\ ret'.value = get(json, pathToString(stack))
                /\ Len(ret'.options) = Len(literals)
                /\ \A i \in 1..Len(literals) :
                     /\ ret'.options[i].value = literals[i]
                     /\ ret'.options[i].text = literals[i] ]_vars
  /\ []( ( /\ status = "done" /\ thing = MonetaryAmountName \o ".currencyCode"
           /\ "currencyCode" \in DOMAIN json )
         => /\ ret.children[2].value = json["currencyCode"]
            /\ [i \in 1..3 |-> ret.children[2].options[i].value]
                 = <<"USD", "EUR", "GBP">> )

\* C8 witness: the currencyCode field over a document holding "EUR" has been
\* rendered with value "EUR" and three options.
C8_Witness ==
  /\ status = "done" /\ thing = MonetaryAmountName \o ".currencyCode"
  /\ ret.children[2].w = "ConcertoDropdown"
  /\ ret.children[2].value = Str("EUR")
  /\ ret.children[2].id = "currencyCode"
  /\ Len(ret.children[2].options) = 3

====
